---------------------------- MODULE Spec2Model ----------------------------
(***************************************************************************)
(* A model of src/sudokuPuzzles.c: the Sudoku board generator              *)
(* (generateBoard / randomFillBoard), the solution counter (solveBoard),   *)
(* the puzzle reducer (generatePuzzle), the list shuffler (shuffleValues)  *)
(* and the helpers they share (nextEmpty, getValidIntegers,                *)
(* permittedValue, duplicateBoard).                                        *)
(*                                                                         *)
(* The C call stack is the variable stack: one record per active call,     *)
(* holding the callee's locals and its position (pc).  Arrays are          *)
(* functions indexed from 0, as in the source.  Every action is one        *)
(* straight-line piece of a function between two calls or loop tests.      *)
(***************************************************************************)
EXTENDS Integers, Sequences, FiniteSets, TLC

(***************************************************************************)
(* Program constants                                                       *)
(***************************************************************************)
TRUE_C == 1
FALSE_C == 0
EMPTY == 0

\* The source is built with SIZE 9; its header (line 9) lets the user set
\* SIZE to 4, 9 or 16.  The model is the SIZE 4 build.
SIZE == 4

\* (int)sqrt(SIZE)
squareSize == CHOOSE k \in 1..SIZE : k * k = SIZE

(***************************************************************************)
(* Bounds of the model                                                     *)
(***************************************************************************)
\* srand() seeds explored by the whole-program specification: 0..MaxSeed
MaxSeed == 11
\* largest number of cells cleared from a complete board to make an input
\* of solveBoard / randomFillBoard
MaxHoles == 4
\* longest list handed to shuffleValues on its own
MaxListLen == 4
\* rand() returns a value in 0..RandMax when the caller is not modelled
RandMax == 4

Index == 0..(SIZE - 1)
Values == 1..SIZE
Cells == Index \X Index       \* <<y, x>>: row y, column x

(***************************************************************************)
(* Boards                                                                  *)
(***************************************************************************)
\* int solution[SIZE][SIZE] = { 0 }
ZeroBoard == [y \in Index |-> [x \in Index |-> 0]]

\* board[yPos][xPos] = v
WriteCell(b, y, x, v) == [b EXCEPT ![y][x] = v]

\* duplicateBoard(read, write): write becomes a value-for-value copy of read
duplicateBoard(read) == [i \in Index |-> [j \in Index |-> read[i][j]]]

\* nextEmpty: row-by-row scan for the first EMPTY cell.  found = FALSE when
\* there is none; otherwise xVal, yVal are its column and row.
nextEmpty(b) ==
    LET empties == {c \in Cells : b[c[1]][c[2]] = EMPTY}
    IN  IF empties = {}
        THEN [found |-> FALSE, xVal |-> 0, yVal |-> 0]
        ELSE LET yVal == CHOOSE y \in Index :
                            /\ \E x \in Index : <<y, x>> \in empties
                            /\ \A y2 \in Index :
                                  (\E x \in Index : <<y2, x>> \in empties) => y <= y2
                 xVal == CHOOSE x \in Index :
                            /\ <<yVal, x>> \in empties
                            /\ \A x2 \in Index : <<yVal, x2>> \in empties => x <= x2
             IN  [found |-> TRUE, xVal |-> xVal, yVal |-> yVal]

\* permittedValue with the scan of the sub-square left out
permittedValueNoBox(b, xPos, yPos) ==
    LET rowScan == {b[yPos][xval] : xval \in Index}
        colScan == {b[yval][xPos] : yval \in Index}
    IN  [v \in 0..SIZE |-> v # EMPTY /\ v \notin rowScan /\ v \notin colScan]

\* permittedValue with the scan of the column left out
permittedValueNoColumn(b, xPos, yPos) ==
    LET xMin == (xPos \div squareSize) * squareSize
        xMax == xMin + squareSize - 1
        yMin == (yPos \div squareSize) * squareSize
        yMax == yMin + squareSize - 1
        rowScan == {b[yPos][xval] : xval \in Index}
        boxScan == {b[i][j] : i \in yMin..yMax, j \in xMin..xMax}
    IN  [v \in 0..SIZE |-> v # EMPTY /\ v \notin rowScan /\ v \notin boxScan]

\* permittedValue: permitted[v] for v in 0..SIZE.  All of 1..SIZE start TRUE,
\* permitted[EMPTY] is FALSE, then every value scanned in the row, the column
\* and the sub-square of (xPos, yPos) is set FALSE.
permittedValue(b, xPos, yPos) ==
    LET xMin == (xPos \div squareSize) * squareSize
        xMax == xMin + squareSize - 1
        yMin == (yPos \div squareSize) * squareSize
        yMax == yMin + squareSize - 1
        rowScan == {b[yPos][xval] : xval \in Index}
        colScan == {b[yval][xPos] : yval \in Index}
        boxScan == {b[i][j] : i \in yMin..yMax, j \in xMin..xMax}
    IN  [v \in 0..SIZE |->
            /\ v # EMPTY
            /\ v \notin rowScan
            /\ v \notin colScan
            /\ v \notin boxScan]

\* int validIntegers[SIZE] = { 0 }
ZeroList == [k \in Index |-> 0]

\* getValidIntegers: the permitted values in ascending order at positions
\* 0..intIndex-1 of validIntegers (the rest of the array is left as the caller
\* initialised it: zeros); intIndex is the return value.
getValidIntegers(b, xPos, yPos) ==
    LET permitted == permittedValue(b, xPos, yPos)
        ok == {v \in Values : permitted[v]}
        intIndex == Cardinality(ok)
        \* the value stored at position k: the one with k permitted values below it
        At(k) == CHOOSE v \in ok : Cardinality({w \in ok : w < v}) = k
    IN  [validIntegers |-> [k \in Index |-> IF k < intIndex THEN At(k) ELSE 0],
         intIndex |-> intIndex]


(***************************************************************************)
(* State                                                                   *)
(***************************************************************************)
VARIABLES
    board,           \* the grid every function works on (main's puzzle[][])
    solution,        \* the output grid of solveBoard (main's solution[][])
    backtrackCount,  \* the global node counter of solveBoard
    stack,           \* the call stack: the active calls' locals, innermost last
    retVal,          \* the value returned by the call that returned last
    randState,       \* the internal state of the C library's rand()
    MAX_EMPTY,       \* the cap on emptied cells the program is built with
    outOfBounds      \* whether some array access fell outside its array

vars == <<board, solution, backtrackCount, stack, retVal, randState,
          MAX_EMPTY, outOfBounds>>

Top == stack[Len(stack)]
Depth == Len(stack)
Running(f) == Depth > 0 /\ Top.fn = f

\* the stack with its innermost frame replaced / removed / one more pushed
SetTop(fr) == [stack EXCEPT ![Len(stack)] = fr]
Pop == SubSeq(stack, 1, Len(stack) - 1)
Push(caller, callee) == Append(SetTop(caller), callee)

(***************************************************************************)
(* solveBoard                                                              *)
(***************************************************************************)
\* The locals of a fresh call of solveBoard(b, solution).  entry is the board
\* as the call found it (a record of the call's argument, not a C local).
SolveFrame(b) ==
    [fn |-> "solveBoard", pc |-> "enter", totalSolutions |-> 0,
     xPos |-> 0, yPos |-> 0, validIntegers |-> ZeroList, listSize |-> 0,
     i |-> 0, entry |-> b]

\* The test a leaf makes before saving the board: is this the first solution
\* found?  totalSolutions is the local of this call.
IsFirstSolution(fr) == fr.totalSolutions = 0

\* Line 327: totalSolutions += solveBoard(board, solution)
\* (AddBranchNoSum: = instead of +=)
AddBranchNoSum(total, branch) == branch
AddBranch(total, branch) == total + branch

\* Line 329: board[yPos][xPos] = EMPTY
ResetCellKeep(b, y, x) == b
ResetCell(b, y, x) == WriteCell(b, y, x, EMPTY)

\* Lines 317-320 and 335-344: find the next empty cell.  With none, the board is
\* a solution: save it when totalSolutions = 0 and count it.  Otherwise list the
\* cell's legal values; with none this branch has no solution.
SolveEnter ==
    /\ Running("solveBoard") /\ Top.pc = "enter"
    /\ LET ne == nextEmpty(board)
           gv == getValidIntegers(board, ne.xVal, ne.yVal)
       IN  IF ne.found
           THEN /\ stack' = SetTop([Top EXCEPT
                        !.xPos = ne.xVal, !.yPos = ne.yVal,
                        !.validIntegers = gv.validIntegers,
                        !.listSize = gv.intIndex,
                        !.totalSolutions = 0,
                        !.pc = IF gv.intIndex > 0 THEN "loop" ELSE "return"])
                /\ UNCHANGED solution
           ELSE /\ solution' = IF IsFirstSolution(Top)
                               THEN duplicateBoard(board) ELSE solution
                /\ stack' = SetTop([Top EXCEPT
                        !.totalSolutions = Top.totalSolutions + 1,
                        !.pc = "return"])
    /\ UNCHANGED <<board, backtrackCount, retVal, randState, MAX_EMPTY, outOfBounds>>

\* Lines 322-327: the loop test, the trial value written into the cell, and the
\* recursive call.
SolveTry ==
    /\ Running("solveBoard") /\ Top.pc = "loop"
    /\ Top.i < Top.listSize
    /\ LET b2 == WriteCell(board, Top.yPos, Top.xPos, Top.validIntegers[Top.i])
       IN  /\ board' = b2
           /\ stack' = Push([Top EXCEPT !.pc = "called"], SolveFrame(b2))
    /\ UNCHANGED <<solution, backtrackCount, retVal, randState, MAX_EMPTY, outOfBounds>>

\* Lines 327-331: the recursive call has returned; add its count, put EMPTY back
\* in the cell, count the node, next i.
SolveUndo ==
    /\ Running("solveBoard") /\ Top.pc = "called"
    /\ board' = ResetCell(board, Top.yPos, Top.xPos)
    /\ backtrackCount' = backtrackCount + 1
    /\ stack' = SetTop([Top EXCEPT
            !.totalSolutions = AddBranch(Top.totalSolutions, retVal),
            !.i = Top.i + 1,
            !.pc = "loop"])
    /\ UNCHANGED <<solution, retVal, randState, MAX_EMPTY, outOfBounds>>

\* Line 345: return totalSolutions (the loop is over, or there was none).
SolveReturn ==
    /\ Running("solveBoard")
    /\ \/ Top.pc = "return"
       \/ Top.pc = "loop" /\ Top.i >= Top.listSize
    /\ retVal' = Top.totalSolutions
    /\ stack' = Pop
    /\ UNCHANGED <<board, solution, backtrackCount, randState, MAX_EMPTY, outOfBounds>>

(***************************************************************************)
(* rand()                                                                  *)
(*                                                                         *)
(* rand() belongs to the C library, not to the program.  Where the program *)
(* seeds it (main, line 81) the model runs a 16-bit linear congruential    *)
(* generator from the seed, so that each seed gives one sequence of draws. *)
(* Where a function is studied on its own the generator's state is unknown *)
(* and every call may return any value of 0..RandMax.                      *)
(***************************************************************************)
Unseeded == [seeded |-> FALSE, next |-> 0]
srand(seed) == [seeded |-> TRUE, next |-> seed]

\* the possible outcomes of one call of rand(): the value returned and the
\* generator's state after it
rand(st) ==
    IF st.seeded
    THEN LET n == (st.next * 25173 + 13849) % 65536
         IN  {[value |-> n \div 16, state |-> [st EXCEPT !.next = n]]}
    ELSE {[value |-> r, state |-> st] : r \in 0..RandMax}

(***************************************************************************)
(* shuffleValues                                                           *)
(***************************************************************************)
\* what an out-of-bounds read may return: whatever lies after the array
Garbage == {0, SIZE + 1}

\* list[k] for an array of `capacity` items; past the end, a garbage value
ReadAt(list, capacity, k, garbage) == IF k < capacity THEN list[k] ELSE garbage

\* Lines 502-505: the position the drawn item is put back at: listSize after
\* the decrement of line 502, the parameter being the size before it
PlaceIndexNoDecrement(listSize) == listSize
PlaceIndex(listSize) == listSize - 1

\* Lines 491-505, one pass of the do-while body on the array: draw the item at
\* randomIndex, overwrite list[i] with list[i + 1] for i = randomIndex ..
\* listSize - 1 (the last of these reads list[listSize]), then put the drawn
\* item at index listSize - 1.
ShuffleOnce(list, capacity, listSize, randomIndex, garbage) ==
    LET listItem == list[randomIndex]
        shifted == [k \in DOMAIN list |->
                       IF randomIndex <= k /\ k < listSize
                       THEN ReadAt(list, capacity, k + 1, garbage)
                       ELSE list[k]]
        at == PlaceIndex(listSize)
    IN  [k \in DOMAIN list |-> IF k = at THEN listItem ELSE shifted[k]]

\* The array indexes one pass of the do-while body reads: list[randomIndex]
\* (line 491) and list[i + 1] for i = randomIndex .. listSize - 1 (line 498),
\* listSize being the size before the decrement of line 502
ReadIndexes(listSize, randomIndex) ==
    {randomIndex} \cup {i + 1 : i \in randomIndex..(listSize - 1)}

\* The array indexes one pass writes: list[i] for i = randomIndex ..
\* listSize - 1 (line 498) and list[listSize - 1] (line 505)
WriteIndexes(listSize, randomIndex) ==
    {i : i \in randomIndex..(listSize - 1)} \cup {PlaceIndex(listSize)}

\* The locals of a fresh call shuffleValues(list, listSize) on an array of
\* `capacity` items.  entry, entrySize, draws, reads and writes record the
\* arguments, the random indexes drawn and the array indexes read and written
\* so far (they are not C locals).
ShuffleFrame(list, capacity, listSize) ==
    [fn |-> "shuffleValues", pc |-> "loop", list |-> list, capacity |-> capacity,
     listSize |-> listSize, randomIndex |-> 0, completedIndex |-> 0,
     listItem |-> 0, entry |-> list, entrySize |-> listSize, draws |-> <<>>,
     reads |-> {}, writes |-> {}]

\* Lines 486-510: one pass of the do-while loop.
ShuffleIter ==
    /\ Running("shuffleValues") /\ Top.pc = "loop"
    /\ \E rnd \in rand(randState) : \E garbage \in Garbage :
         LET randomIndex == rnd.value % Top.listSize
             newSize == Top.listSize - 1
         IN  /\ stack' = SetTop([Top EXCEPT
                     !.randomIndex = randomIndex,
                     !.listItem = Top.list[randomIndex],
                     !.list = ShuffleOnce(Top.list, Top.capacity, Top.listSize,
                                          randomIndex, garbage),
                     !.listSize = newSize,
                     !.completedIndex = Top.completedIndex + 1,
                     !.draws = Append(Top.draws, randomIndex),
                     !.reads = Top.reads \cup ReadIndexes(Top.listSize, randomIndex),
                     !.writes = Top.writes
                                  \cup WriteIndexes(Top.listSize, randomIndex),
                     !.pc = IF newSize > 0 THEN "loop" ELSE "return"])
             /\ randState' = rnd.state
             /\ outOfBounds' =
                    (outOfBounds
                       \/ \E k \in ReadIndexes(Top.listSize, randomIndex)
                                  \cup WriteIndexes(Top.listSize, randomIndex) :
                             k < 0 \/ k >= Top.capacity)
    /\ UNCHANGED <<board, solution, backtrackCount, retVal, MAX_EMPTY>>

\* Line 511: return.  The array shuffled is the caller's: validIntegers of
\* randomFillBoard, listOfCells of generatePuzzle.
ShuffleReturn ==
    /\ Running("shuffleValues") /\ Top.pc = "return"
    /\ stack' = IF Depth = 1 THEN Pop
                ELSE LET caller == stack[Depth - 1]
                         back == IF caller.fn = "randomFillBoard"
                                 THEN [caller EXCEPT !.validIntegers = Top.list]
                                 ELSE [caller EXCEPT !.listOfCells = Top.list]
                     IN  [Pop EXCEPT ![Depth - 1] = back]
    /\ UNCHANGED <<board, solution, backtrackCount, retVal, randState, MAX_EMPTY,
                   outOfBounds>>

(***************************************************************************)
(* randomFillBoard and generateBoard                                       *)
(***************************************************************************)
\* The locals of a fresh call of randomFillBoard(b); entry records the board as
\* the call found it.
FillFrame(b) ==
    [fn |-> "randomFillBoard", pc |-> "enter", xPos |-> 0, yPos |-> 0,
     validIntegers |-> ZeroList, listSize |-> 0, solved |-> FALSE_C, i |-> 0,
     entry |-> b]

\* Lines 184-186: if (!solved) board[yPos][xPos] = EMPTY
FillUndoKeep(b, y, x, solved) == b
FillUndo(b, y, x, solved) == IF solved = FALSE_C THEN WriteCell(b, y, x, EMPTY) ELSE b

\* Line 173: the loop test  i < listSize && !solved
FillLoopTest(fr) == fr.i < fr.listSize /\ fr.solved = FALSE_C

\* Lines 152-168: no empty cell: solved.  No legal value for the next empty
\* cell: unsolvable.  Otherwise shuffle the legal values and start the loop.
FillEnter ==
    /\ Running("randomFillBoard") /\ Top.pc = "enter"
    /\ LET ne == nextEmpty(board)
           gv == getValidIntegers(board, ne.xVal, ne.yVal)
       IN  IF ~ne.found
           THEN stack' = SetTop([Top EXCEPT !.solved = TRUE_C, !.pc = "return"])
           ELSE LET fr == [Top EXCEPT !.xPos = ne.xVal, !.yPos = ne.yVal,
                                      !.validIntegers = gv.validIntegers,
                                      !.listSize = gv.intIndex]
                IN  IF gv.intIndex <= 0
                    THEN stack' = SetTop([fr EXCEPT !.solved = FALSE_C,
                                                    !.pc = "return"])
                    ELSE stack' = Push([fr EXCEPT !.i = 0, !.pc = "loop"],
                                       ShuffleFrame(gv.validIntegers, SIZE,
                                                    gv.intIndex))
    /\ UNCHANGED <<board, solution, backtrackCount, retVal, randState, MAX_EMPTY,
                   outOfBounds>>

\* Lines 173-179: the loop test, the value written into the cell, the recursion.
FillTry ==
    /\ Running("randomFillBoard") /\ Top.pc = "loop"
    /\ FillLoopTest(Top)
    /\ LET b2 == WriteCell(board, Top.yPos, Top.xPos, Top.validIntegers[Top.i])
       IN  /\ board' = b2
           /\ stack' = Push([Top EXCEPT !.pc = "called"], FillFrame(b2))
    /\ UNCHANGED <<solution, backtrackCount, retVal, randState, MAX_EMPTY,
                   outOfBounds>>

\* Lines 179-187: solved is what the recursion returned; without a solution the
\* cell is made EMPTY again; next i.
FillAfter ==
    /\ Running("randomFillBoard") /\ Top.pc = "called"
    /\ board' = FillUndo(board, Top.yPos, Top.xPos, retVal)
    /\ stack' = SetTop([Top EXCEPT !.solved = retVal, !.i = Top.i + 1,
                                   !.pc = "loop"])
    /\ UNCHANGED <<solution, backtrackCount, retVal, randState, MAX_EMPTY,
                   outOfBounds>>

\* Line 190: return solved.
FillReturn ==
    /\ Running("randomFillBoard")
    /\ \/ Top.pc = "return"
       \/ Top.pc = "loop" /\ ~FillLoopTest(Top)
    /\ retVal' = Top.solved
    /\ stack' = Pop
    /\ UNCHANGED <<board, solution, backtrackCount, randState, MAX_EMPTY,
                   outOfBounds>>

GenerateBoardFrame == [fn |-> "generateBoard", pc |-> "start"]

\* Lines 121-130: set every cell to 0, then call randomFillBoard.
GenerateBoardStart ==
    /\ Running("generateBoard") /\ Top.pc = "start"
    /\ board' = ZeroBoard
    /\ stack' = Push([Top EXCEPT !.pc = "filled"], FillFrame(ZeroBoard))
    /\ UNCHANGED <<solution, backtrackCount, retVal, randState, MAX_EMPTY,
                   outOfBounds>>

\* Line 132: return 1, whatever randomFillBoard returned.
GenerateBoardReturn ==
    /\ Running("generateBoard") /\ Top.pc = "filled"
    /\ retVal' = 1
    /\ stack' = Pop
    /\ UNCHANGED <<board, solution, backtrackCount, randState, MAX_EMPTY,
                   outOfBounds>>

(***************************************************************************)
(* generatePuzzle                                                          *)
(***************************************************************************)
CellList == 0..(SIZE * SIZE - 1)

\* The locals of a fresh call of generatePuzzle(b, solution); entry records the
\* board passed in.
PuzzleFrame(b) ==
    [fn |-> "generatePuzzle", pc |-> "start", cellNumber |-> 0,
     listOfCells |-> [k \in CellList |-> 0], xPos |-> 0, yPos |-> 0,
     cellValue |-> 0, removedCount |-> 0, solutions |-> 0, index |-> 0,
     entry |-> b]

\* Line 229: the loop test  index < SIZE*SIZE && removedCount < MAX_EMPTY
PuzzleLoopTest(fr) == fr.index < SIZE * SIZE /\ fr.removedCount < MAX_EMPTY

\* Line 246: if (solutions > 1) the cell's value is put back
MustRestoreAlways(solutions) == solutions > 0
MustRestoreLate(solutions) == solutions > 2
MustRestore(solutions) == solutions > 1

\* Lines 209-228: number the cells 0 .. SIZE*SIZE-1 and shuffle the list.
PuzzleStart ==
    /\ Running("generatePuzzle") /\ Top.pc = "start"
    /\ LET cells == [k \in CellList |-> k]
       IN  stack' = Push([Top EXCEPT !.listOfCells = cells, !.removedCount = 0,
                                     !.solutions = 0, !.index = 0, !.pc = "loop"],
                         ShuffleFrame(cells, SIZE * SIZE, SIZE * SIZE))
    /\ UNCHANGED <<board, solution, backtrackCount, retVal, randState, MAX_EMPTY,
                   outOfBounds>>

\* Lines 229-242: the loop test; take the next cell of the list, remember its
\* value, empty it and count the solutions of the board.
PuzzleRemove ==
    /\ Running("generatePuzzle") /\ Top.pc = "loop"
    /\ PuzzleLoopTest(Top)
    /\ LET cellNumber == Top.listOfCells[Top.index]
           yPos == cellNumber \div SIZE
           xPos == cellNumber % SIZE
           b2 == WriteCell(board, yPos, xPos, EMPTY)
       IN  /\ board' = b2
           /\ stack' = Push([Top EXCEPT !.cellNumber = cellNumber,
                                        !.yPos = yPos, !.xPos = xPos,
                                        !.cellValue = board[yPos][xPos],
                                        !.pc = "called"],
                            SolveFrame(b2))
    /\ UNCHANGED <<solution, backtrackCount, retVal, randState, MAX_EMPTY,
                   outOfBounds>>

\* Lines 242-252: with more than one solution the value is put back, otherwise
\* the removal is counted; next index.
PuzzleDecide ==
    /\ Running("generatePuzzle") /\ Top.pc = "called"
    /\ IF MustRestore(retVal)
       THEN /\ board' = WriteCell(board, Top.yPos, Top.xPos, Top.cellValue)
            /\ stack' = SetTop([Top EXCEPT !.solutions = retVal,
                                           !.index = Top.index + 1,
                                           !.pc = "loop"])
       ELSE /\ board' = board
            /\ stack' = SetTop([Top EXCEPT !.solutions = retVal,
                                           !.removedCount = Top.removedCount + 1,
                                           !.index = Top.index + 1,
                                           !.pc = "loop"])
    /\ UNCHANGED <<solution, backtrackCount, retVal, randState, MAX_EMPTY,
                   outOfBounds>>

\* Line 254: return removedCount.
PuzzleReturn ==
    /\ Running("generatePuzzle") /\ Top.pc = "loop"
    /\ ~PuzzleLoopTest(Top)
    /\ retVal' = Top.removedCount
    /\ stack' = Pop
    /\ UNCHANGED <<board, solution, backtrackCount, randState, MAX_EMPTY,
                   outOfBounds>>

(***************************************************************************)
(* main                                                                    *)
(***************************************************************************)
MainFrame == [fn |-> "main", pc |-> "srand", emptyCells |-> 0]

\* Lines 81-85: seed the generator with the time; both grids start as zeros.
MainSrand ==
    /\ Running("main") /\ Top.pc = "srand"
    /\ \E time \in 0..MaxSeed : randState' = srand(time)
    /\ board' = ZeroBoard
    /\ solution' = ZeroBoard
    /\ stack' = SetTop([Top EXCEPT !.pc = "generateBoard"])
    /\ UNCHANGED <<backtrackCount, retVal, MAX_EMPTY, outOfBounds>>

\* Line 92: generateBoard(puzzle)
MainGenerateBoard ==
    /\ Running("main") /\ Top.pc = "generateBoard"
    /\ stack' = Push([Top EXCEPT !.pc = "generatePuzzle"], GenerateBoardFrame)
    /\ UNCHANGED <<board, solution, backtrackCount, retVal, randState, MAX_EMPTY,
                   outOfBounds>>

\* Line 99: generatePuzzle(puzzle, solution)
MainGeneratePuzzle ==
    /\ Running("main") /\ Top.pc = "generatePuzzle"
    /\ stack' = Push([Top EXCEPT !.pc = "display"], PuzzleFrame(board))
    /\ UNCHANGED <<board, solution, backtrackCount, retVal, randState, MAX_EMPTY,
                   outOfBounds>>

\* Lines 99-114: emptyCells is what generatePuzzle returned; the puzzle and then
\* the solution grid are printed.
MainDisplay ==
    /\ Running("main") /\ Top.pc = "display"
    /\ stack' = SetTop([Top EXCEPT !.emptyCells = retVal, !.pc = "done"])
    /\ UNCHANGED <<board, solution, backtrackCount, retVal, randState, MAX_EMPTY,
                   outOfBounds>>

\* The program as built: main, for every seed and every cap on emptied cells.
Init ==
    /\ board = ZeroBoard
    /\ solution = ZeroBoard
    /\ backtrackCount = 0
    /\ stack = <<MainFrame>>
    /\ retVal = 0
    /\ randState = srand(1)
    /\ MAX_EMPTY \in 0..(SIZE * SIZE)
    /\ outOfBounds = FALSE

Next ==
    \/ MainSrand \/ MainGenerateBoard \/ MainGeneratePuzzle \/ MainDisplay
    \/ GenerateBoardStart \/ GenerateBoardReturn
    \/ FillEnter \/ FillTry \/ FillAfter \/ FillReturn
    \/ ShuffleIter \/ ShuffleReturn
    \/ PuzzleStart \/ PuzzleRemove \/ PuzzleDecide \/ PuzzleReturn
    \/ SolveEnter \/ SolveTry \/ SolveUndo \/ SolveReturn

Spec == Init /\ [][Next]_vars

(***************************************************************************)
(* Inputs of the stand-alone specifications: boards made from a complete   *)
(* valid board by clearing at most MaxHoles cells and then, possibly,      *)
(* writing another value into one of the cleared cells where the rules     *)
(* allow it.  Such a board may have zero, one or several completions.      *)
(***************************************************************************)
MkBoard(t) == [y \in Index |-> [x \in Index |-> t[y + 1][x + 1]]]

BaseBoards ==
    { MkBoard(<< <<1, 2, 3, 4>>, <<3, 4, 1, 2>>, <<2, 1, 4, 3>>, <<4, 3, 2, 1>> >>),
      MkBoard(<< <<4, 2, 1, 3>>, <<1, 3, 4, 2>>, <<2, 1, 3, 4>>, <<3, 4, 2, 1>> >>) }

ClearCells(b, H) ==
    [y \in Index |-> [x \in Index |-> IF <<y, x>> \in H THEN EMPTY ELSE b[y][x]]]

HoleSets == {H \in SUBSET Cells : Cardinality(H) <= MaxHoles}

InputBoards ==
    LET dug == {ClearCells(b, H) : b \in BaseBoards, H \in HoleSets}
        planted == UNION { { WriteCell(d, c[1], c[2], v) :
                               v \in {w \in Values :
                                        permittedValue(d, c[2], c[1])[w]} }
                           : <<d, c>> \in {p \in dug \X Cells :
                                             p[1][p[2][1]][p[2][2]] = EMPTY} }
    IN  dug \cup planted

InitSolve ==
    /\ board \in InputBoards
    /\ solution = ZeroBoard
    /\ backtrackCount = 0
    /\ stack = <<SolveFrame(board)>>
    /\ retVal = 0
    /\ randState = 1
    /\ MAX_EMPTY = SIZE * SIZE
    /\ outOfBounds = FALSE

NextSolve == SolveEnter \/ SolveTry \/ SolveUndo \/ SolveReturn

SpecSolve == InitSolve /\ [][NextSolve]_vars

\* randomFillBoard on its own, on every input board, with every outcome of rand()
InitFill ==
    /\ board \in InputBoards
    /\ solution = ZeroBoard
    /\ backtrackCount = 0
    /\ stack = <<FillFrame(board)>>
    /\ retVal = 0
    /\ randState = Unseeded
    /\ MAX_EMPTY = SIZE * SIZE
    /\ outOfBounds = FALSE

NextFill ==
    \/ FillEnter \/ FillTry \/ FillAfter \/ FillReturn
    \/ ShuffleIter \/ ShuffleReturn

SpecFill == InitFill /\ [][NextFill]_vars

\* shuffleValues on its own: every list of 1..MaxListLen distinct values at the
\* start of an array of at most MaxListLen items (zeros after the list), with
\* every outcome of rand()
InputLists ==
    {l \in UNION {[0..(cap - 1) -> 0..MaxListLen] : cap \in 1..MaxListLen} :
        \E len \in 1..MaxListLen :
            /\ \A k \in DOMAIN l : (k < len) <=> (l[k] # 0)
            /\ \A j \in DOMAIN l, k \in DOMAIN l : (j < k /\ k < len) => l[j] # l[k]}

ListLen(l) == Cardinality({k \in DOMAIN l : l[k] # 0})

InitShuffle ==
    /\ board = ZeroBoard
    /\ solution = ZeroBoard
    /\ backtrackCount = 0
    /\ \E l \in InputLists :
          stack = <<ShuffleFrame(l, Cardinality(DOMAIN l), ListLen(l))>>
    /\ retVal = 0
    /\ randState = Unseeded
    /\ MAX_EMPTY = SIZE * SIZE
    /\ outOfBounds = FALSE

NextShuffle == ShuffleIter \/ ShuffleReturn

SpecShuffle == InitShuffle /\ [][NextShuffle]_vars


(***************************************************************************)
(* What the claims speak of: validity, complete boards, completions.       *)
(* These are definitions of the rules of Sudoku, not of the program.       *)
(***************************************************************************)
Rows == {{<<y, x>> : x \in Index} : y \in Index}
Cols == {{<<y, x>> : y \in Index} : x \in Index}
Boxes == {{<<y, x>> : y \in (by * squareSize)..(by * squareSize + squareSize - 1),
                      x \in (bx * squareSize)..(bx * squareSize + squareSize - 1)}
          : by \in 0..(squareSize - 1), bx \in 0..(squareSize - 1)}
Units == Rows \cup Cols \cup Boxes

\* validity: the nonzero values of every row, column and box are pairwise distinct
Valid(b) ==
    \A u \in Units : \A c \in u, d \in u :
        (c # d /\ b[c[1]][c[2]] # EMPTY) => b[c[1]][c[2]] # b[d[1]][d[2]]

IsFull(b) == \A c \in Cells : b[c[1]][c[2]] # EMPTY

\* every row, column and box holds each of 1..SIZE exactly once
IsSolution(b) ==
    \A u \in Units : \A v \in Values :
        Cardinality({c \in u : b[c[1]][c[2]] = v}) = 1

\* All complete valid boards, built band by band: the pairs of rows that can
\* share a band of boxes, then the pairs of bands that make a solution.
RowPerms == {r : r \in {q \in [Index -> Values] :
                          \A x1 \in Index, x2 \in Index : x1 # x2 => q[x1] # q[x2]}}
BandOK(r1, r2) ==
    \A bx \in 0..(squareSize - 1) :
        LET xs == (bx * squareSize)..(bx * squareSize + squareSize - 1)
        IN  {r1[x] : x \in xs} \cap {r2[x] : x \in xs} = {}
Bands == {p : p \in {q \in RowPerms \X RowPerms : BandOK(q[1], q[2])}}
BoardOfBands(t, u) == [y \in Index |-> IF y = 0 THEN t[1] ELSE IF y = 1 THEN t[2]
                                       ELSE IF y = 2 THEN u[1] ELSE u[2]]
AllSolutions ==
    {b : b \in {BoardOfBands(p[1], p[2]) : p \in {q \in Bands \X Bands :
                                                  IsSolution(BoardOfBands(q[1], q[2]))}}}

\* the complete valid boards that extend b: equal to b wherever b is filled
Extends(s, b) == \A c \in Cells : b[c[1]][c[2]] # EMPTY => s[c[1]][c[2]] = b[c[1]][c[2]]
Completions(b) == {s \in AllSolutions : Extends(s, b)}
NumCompletions(b) == Cardinality(Completions(b))

\* the order in which the search meets the complete boards: first empty cell in
\* row-major order, values ascending, so boards compare cell by cell, row-major
CellRank(c) == c[1] * SIZE + c[2]
SearchBefore(s, t) ==
    \E c \in Cells :
        /\ s[c[1]][c[2]] < t[c[1]][c[2]]
        /\ \A d \in Cells : CellRank(d) < CellRank(c) => s[d[1]][d[2]] = t[d[1]][d[2]]
FirstCompletion(b) ==
    CHOOSE s \in Completions(b) : \A t \in Completions(b) : t # s => SearchBefore(s, t)

\* the call in fr is at its return statement
AtReturn(fr) ==
    CASE fr.fn = "solveBoard" ->
            fr.pc = "return" \/ (fr.pc = "loop" /\ fr.i >= fr.listSize)
      [] fr.fn = "randomFillBoard" ->
            fr.pc = "return" \/ (fr.pc = "loop" /\ ~FillLoopTest(fr))
      [] fr.fn = "generatePuzzle" -> fr.pc = "loop" /\ ~PuzzleLoopTest(fr)
      [] fr.fn = "generateBoard" -> fr.pc = "filled"
      [] OTHER -> fr.pc = "return"

\* clearing any single filled cell of b leaves a board with two or more completions
LocallyMinimal(b) ==
    \A c \in Cells :
        b[c[1]][c[2]] # EMPTY => NumCompletions(WriteCell(b, c[1], c[2], EMPTY)) >= 2

\* the sequences of random indexes a shuffle of len items can draw: the j-th
\* draw is made with len - j + 1 items left
DrawSeqs(len) == {d \in [1..len -> 0..(len - 1)] : \A j \in 1..len : d[j] <= len - j}

\* shuffleValues as a function of its draws: ShuffleOnce for each draw in turn
RECURSIVE ShuffleAll(_, _, _, _, _)
ShuffleAll(list, capacity, listSize, draws, garbage) ==
    IF draws = <<>> THEN list
    ELSE ShuffleAll(ShuffleOnce(list, capacity, listSize, Head(draws), garbage),
                    capacity, listSize - 1, Tail(draws), garbage)

RECURSIVE Factorial(_)
Factorial(n) == IF n <= 1 THEN 1 ELSE n * Factorial(n - 1)

\* the first len items of an array, as a sequence
Prefix(list, len) == [j \in 1..len |-> list[j - 1]]

C4_SolutionIsFirstFound ==
    (Running("solveBoard") /\ Depth = 1 /\ AtReturn(Top)
        /\ Valid(Top.entry) /\ NumCompletions(Top.entry) >= 1)
        => solution = FirstCompletion(Top.entry)

\* C5: when a call of solveBoard returns, at any recursion level, the board is
\* cell for cell what it was when the call was made.
C5_SolveRestoresBoard ==
    (Running("solveBoard") /\ AtReturn(Top)) => board = Top.entry

\* the top-level call returns after trial values were written and reset
C5_Witness ==
    /\ Running("solveBoard") /\ Depth = 1 /\ AtReturn(Top)
    /\ backtrackCount >= 3 /\ board = Top.entry


(***************************************************************************)
(* Claims about generatePuzzle and the program (specification Spec)        *)
(***************************************************************************)
\* C1: when generatePuzzle returns, the puzzle board has exactly one valid
\* completion, and it is the complete board that was passed in.
C1_PuzzleHasUniqueCompletion ==
    (Running("generatePuzzle") /\ AtReturn(Top))
        => Completions(board) = {Top.entry}

\* generatePuzzle returns having emptied ten cells or more
C1_Witness ==
    /\ Running("generatePuzzle") /\ AtReturn(Top)
    /\ Top.removedCount >= 10
    /\ Cardinality({c \in Cells : board[c[1]][c[2]] = EMPTY}) = Top.removedCount

\* C2: when generatePuzzle returns, the solution grid holds the complete board
\* that was passed in.  Stated for the cap the program is built with
\* (MAX_EMPTY = SIZE * SIZE), where every cell of the list is tried.
C2_SolutionGridIsOriginal ==
    (Running("generatePuzzle") /\ AtReturn(Top) /\ MAX_EMPTY = SIZE * SIZE)
        => solution = Top.entry

\* C6: when generateBoard returns 1, the board has no EMPTY cell and every row,
\* column and box holds each of 1..SIZE exactly once.
C6_GeneratedBoardIsSolution ==
    (Running("generateBoard") /\ AtReturn(Top))
        => (IsFull(board) /\ IsSolution(board))

\* generateBoard is about to return a board whose first row the shuffles
\* did not leave in ascending order
C6_Witness ==
    /\ Running("generateBoard") /\ AtReturn(Top)
    /\ \E x \in Index : board[0][x] # x + 1

\* C8 as claimed: for every cap in 0..SIZE*SIZE, when generatePuzzle returns,
\* clearing any single filled cell gives a board with two or more completions.
C8_LocallyMinimalForEveryCap ==
    (Running("generatePuzzle") /\ AtReturn(Top)) => LocallyMinimal(board)

\* C8 amended: when generatePuzzle returns with every cell of the list tried
\* (index = SIZE*SIZE, as always when MAX_EMPTY = SIZE*SIZE), the puzzle is
\* locally minimal.
C8_LocallyMinimalWhenAllTried ==
    (Running("generatePuzzle") /\ AtReturn(Top) /\ Top.index = SIZE * SIZE)
        => LocallyMinimal(board)

\* generatePuzzle returns after trying every cell, with clues left on the board
C8_Witness ==
    /\ Running("generatePuzzle") /\ AtReturn(Top)
    /\ Top.index = SIZE * SIZE
    /\ Top.removedCount > 0 /\ Top.removedCount < SIZE * SIZE

\* C9: in every state, that is after every single cell write of
\* randomFillBoard, solveBoard and generatePuzzle, the nonzero values of every
\* row, column and box of the board are pairwise distinct.
C9_BoardAlwaysValid == Valid(board)

\* generatePuzzle has just put a clue back, after solveBoard searched
C9_Witness ==
    /\ Running("generatePuzzle") /\ Top.pc = "loop" /\ Top.index > 0
    /\ Top.solutions > 1
    /\ board[Top.yPos][Top.xPos] = Top.cellValue
    /\ backtrackCount > 0

(***************************************************************************)
(* Claim about randomFillBoard (specification SpecFill)                    *)
(***************************************************************************)
\* C7: on a valid board with no valid completion, randomFillBoard returns
\* FALSE and leaves the board cell for cell as it was before the call.
C7_FillFailureRestoresBoard ==
    (Running("randomFillBoard") /\ AtReturn(Top)
        /\ Valid(Top.entry) /\ NumCompletions(Top.entry) = 0)
        => (Top.solved = FALSE_C /\ board = Top.entry)

\* the top-level call fails after having written at least one value
C7_Witness ==
    /\ Running("randomFillBoard") /\ Depth = 1 /\ AtReturn(Top)
    /\ Valid(Top.entry) /\ NumCompletions(Top.entry) = 0
    /\ Top.i >= 1 /\ Top.solved = FALSE_C

(***************************************************************************)
(* Claim about shuffleValues (specification SpecShuffle)                   *)
(***************************************************************************)
\* C10: when shuffleValues returns, positions 0..L-1 hold a permutation of the
\* L distinct values it was given, and the result is the one its draws
\* determine; and for every list the call is entered with, the L! sequences of
\* draws give L! different orderings of it (each ordering comes from exactly
\* one sequence of draws), whatever an out-of-bounds read returns.
C10_ShuffleIsBijection ==
    /\ (Running("shuffleValues") /\ AtReturn(Top)) =>
          LET len == Top.entrySize
          IN  /\ {Top.list[k] : k \in 0..(len - 1)} = {Top.entry[k] : k \in 0..(len - 1)}
              /\ Top.draws \in DrawSeqs(len)
              /\ \A g \in Garbage :
                   Top.list = ShuffleAll(Top.entry, Top.capacity, len, Top.draws, g)
    /\ (Running("shuffleValues") /\ Top.draws = <<>>) =>
          LET len == Top.entrySize
              results == {Prefix(ShuffleAll(Top.entry, Top.capacity, len, d, g), len)
                            : d \in DrawSeqs(len), g \in Garbage}
          IN  /\ Cardinality(DrawSeqs(len)) = Factorial(len)
              /\ Cardinality(results) = Factorial(len)
              /\ \A r \in results :
                   {r[j] : j \in 1..len} = {Top.entry[k] : k \in 0..(len - 1)}

\* a list that fills its array returns in an order other than the one given
C10_Witness ==
    /\ Running("shuffleValues") /\ AtReturn(Top)
    /\ Top.entrySize = MaxListLen
    /\ Top.list # Top.entry


(***************************************************************************)
(* Claim about the array accesses of shuffleValues (specification Spec)    *)
(***************************************************************************)
\* C11: shuffleValues(list, L) reads and writes only positions 0..L-1 of the
\* list, so that no access falls outside the array, also when L is the
\* array's capacity as in the calls from randomFillBoard and generatePuzzle.
C11_ShuffleStaysInList ==
    /\ Running("shuffleValues") =>
          (Top.reads \cup Top.writes) \subseteq 0..(Top.entrySize - 1)
    /\ outOfBounds = FALSE

=============================================================================
